---- MODULE Spec2Model ----
(***************************************************************************)
(* A model of lesser-panda's CollisionLayer (tile grid -> boundary         *)
(* polygons) and of Actor.behave.                                          *)
(*                                                                         *)
(* JavaScript arrays are 0-based: the model keeps the code's 0-based       *)
(* indices in its variables and reads a sequence through At(arr, i).       *)
(* Vertex objects ({x, y}) live in the heap `verts`; an edge holds the     *)
(* ids of its two vertex objects, so that two edges of one cell share the  *)
(* object they have in common, as in the code.                             *)
(* The tolerances 0.25 and 0.025 are compared exactly over the integers:   *)
(* d < 0.25 is 4*d < 1 and d < 0.025 is 40*d < 1.                          *)
(***************************************************************************)
EXTENDS Integers, Sequences, FiniteSets, TLC

\* ------------------------------------------------------------------ bounds
MaxWidth == 2
MaxHeight == 2
MaxTile == 2
MaxBehave == 4
MaxDim == 2
MaxRot == 2
MaxOps == 4
MaxObjects == 2
MaxTagCalls == 3
MaxSounds == 3

\* ------------------------------------------------------------- state
VARIABLES
  tilesize, width, height, data,      \* fields of the CollisionLayer
  pc,                                 \* position inside generateShapes
  verts, edges,                       \* vertex heap and the local `edges`
  edge_list_size, last_edge_list_size,
  i, current_tag, next_edge,          \* loop locals
  temp_edges, vertices,               \* locals of getTagShape
  shapes, hole_tags,
  error,                              \* the call that threw a TypeError, or NoError
  run, firstShapes, firstHoles,       \* which run this is; results of run 1
  behaviorList, behaviors,            \* fields of the Actor
  addToCalls, setupCalls,             \* the behaviors addTo / setup were called on
  nextId, calls, lastBehave           \* instances made, behave calls, the last call

layerVars == <<tilesize, width, height, data>>
genVars == <<pc, verts, edges, edge_list_size, last_edge_list_size, i,
             current_tag, next_edge, temp_edges, vertices, shapes, hole_tags,
             error, run, firstShapes, firstHoles>>
actorVars == <<behaviorList, behaviors, addToCalls, setupCalls, nextId, calls,
               lastBehave>>

VARIABLES
  rotation,                           \* Actor: _rotation
  sprite, body,                       \* Actor: the components, or Null
  scene, layer,                       \* Actor: the scene / layer it was added to, or Null
  removed,                            \* Actor: removed
  world,                              \* scene.world: the bodies registered in it
  stage,                              \* the layer container: its children
  addBodyTwice,                       \* addBody was issued for a body already in the world
  nextComp,                           \* components constructed so far
  thrown,                             \* the factory call that threw, or NoError
  settingsIn,                         \* the settings the next initBody call is given
  ops, lastOp                         \* calls made on the actor, and the last of them

compVars == <<rotation, sprite, body, scene, layer, removed, world, stage,
              addBodyTwice, nextComp, thrown, settingsIn, ops, lastOp>>

VARIABLES
  systems, lateSystems,               \* Scene.systems; the names registered after new Scene()
  updateOrder,                        \* scene.updateOrder
  objects, activeTags, deactiveTags,  \* scene.objects: a list per tag, and the two tag arrays
  removeFlag,                         \* object._remove
  onUpdate,                           \* the object each object's update() removes, or 0
  updated,                            \* the update(dt) calls of the last Object-system update
  phase, step, hookIdx,               \* position inside _update
  trace,                              \* what the current _update has invoked so far
  tagCalls,                           \* pauseObjects / resumeObjects calls made
  lastCall, sceneThrown               \* the last call on the scene, and whether it threw

sceneVars == <<systems, lateSystems, updateOrder, objects, activeTags,
               deactiveTags, removeFlag, onUpdate, updated, phase, step, hookIdx,
               trace, tagCalls, lastCall, sceneThrown>>

VARIABLES
  sounds,                             \* audio: the keys of `sounds`
  soundsToLoadCount, soundsLoadedCount,
  progressCB, completeCB,             \* audio: is the callback set
  loading,                            \* sounds asked to load that have not reported
  timers,                             \* pending setTimeout(completeCB, 0)
  started, startedWith,               \* start was called; the sounds registered then
  completeCalls, progressCalls,       \* invocations of onComplete / onProgress
  reports,                            \* onload / onloaderror reports received
  lateCallback                        \* a callback was invoked after onComplete

audioVars == <<sounds, soundsToLoadCount, soundsLoadedCount, progressCB,
               completeCB, loading, timers, started, startedWith, completeCalls,
               progressCalls, reports, lateCallback>>
extVars == <<compVars, sceneVars, audioVars>>
vars == <<layerVars, genVars, actorVars, extVars>>

\* ------------------------------------------------------------- helpers
At(arr, k) == arr[k + 1]

Abs(n) == IF n < 0 THEN -n ELSE n

\* engine/utils removeItems(arr, startIdx, removeCount)
removeItems(arr, startIdx, removeCount) ==
  IF startIdx >= Len(arr) \/ removeCount = 0 THEN arr
  ELSE LET rc == IF startIdx + removeCount > Len(arr)
                 THEN Len(arr) - startIdx ELSE removeCount
           len == Len(arr) - rc
       IN [k \in 1..len |-> IF k - 1 < startIdx THEN arr[k] ELSE arr[k + rc]]

\* ./utils lift(arr, w, h): the flat row-major array as h rows of w cells
lift(arr, w, h) == [r \in 1..h |-> [c \in 1..w |-> arr[(r - 1) * w + c]]]

NoError == "none"

\* tag of an edge that has none (edge.tag == undefined)
Undefined == -1

Dist2(p, q) == (p.x - q.x) * (p.x - q.x) + (p.y - q.y) * (p.y - q.y)

\* the coordinates of an edge's two ends
Start(V, e) == V[e.v0]
End(V, e) == V[e.v1]

\* ------------------------------------------------- edge generation (64-84)
\* mutant: the edge list of the previous call is not cleared
NewEdgeListKept(old) == old

\* `var edges = []`
NewEdgeList(old) == << >>

\* the four vertex objects of the cell at column j, row i
CellVertices(mx, my, ci, cj) ==
  LET x == mx * cj
      y == my * ci
  IN << [x |-> x,      y |-> y + my],
        [x |-> x,      y |-> y     ],
        [x |-> x + mx, y |-> y     ],
        [x |-> x + mx, y |-> y + my] >>

\* the four edges of a cell whose vertex objects have ids base+1 .. base+4
CellEdges(base) ==
  << [v0 |-> base + 1, v1 |-> base + 2, tag |-> Undefined],
     [v0 |-> base + 2, v1 |-> base + 3, tag |-> Undefined],
     [v0 |-> base + 3, v1 |-> base + 4, tag |-> Undefined],
     [v0 |-> base + 4, v1 |-> base + 1, tag |-> Undefined] >>

\* mutant: the test for a solid cell is inverted
IsSolidInverted(cell) == cell = 0

\* grid[i][j] !== 0
IsSolid(cell) == cell # 0

RECURSIVE CreateEdgesFrom(_, _, _, _, _, _, _)
CreateEdgesFrom(grid, w, h, m, k, V, es) ==
  IF k >= w * h THEN [verts |-> V, edges |-> es]
  ELSE LET ci == k \div w
           cj == k % w
       IN IF IsSolid(grid[ci + 1][cj + 1])
          THEN CreateEdgesFrom(grid, w, h, m, k + 1,
                               V \o CellVertices(m, m, ci, cj),
                               es \o CellEdges(Len(V)))
          ELSE CreateEdgesFrom(grid, w, h, m, k + 1, V, es)

CreateEdgesOf(grid, w, h, m, old) ==
  CreateEdgesFrom(grid, w, h, m, 0, << >>, NewEdgeList(old))

\* ----------------------------------------- shared-edge cancellation (87-104)
\* mutant: the ends are compared start with start and end with end
isEdgeEqualSameEnds(V, e1, e2) ==
  LET d1 == Dist2(Start(V, e1), Start(V, e2))
      d2 == Dist2(End(V, e2), End(V, e1))
  IN 4 * d1 < 1 /\ 4 * d2 < 1

isEdgeEqual(V, e1, e2) ==
  LET d1 == Dist2(Start(V, e1), End(V, e2))
      d2 == Dist2(Start(V, e2), End(V, e1))
  IN 4 * d1 < 1 /\ 4 * d2 < 1

\* the inner loop `for (j = i - 1; j >= 0; j--)` of the pass for index oi;
\* e1 is << >> when edges[oi] was undefined, and reading a field of undefined
\* throws
RECURSIVE RemoveInner(_, _, _, _, _)
RemoveInner(V, es, oi, j, e1) ==
  IF j < 0 THEN [edges |-> es, error |-> FALSE]
  ELSE IF e1 = << >> \/ j >= Len(es) THEN [edges |-> es, error |-> TRUE]
  ELSE IF isEdgeEqual(V, e1[1], At(es, j))
       THEN RemoveInner(V, removeItems(removeItems(es, oi, 1), j, 1), oi, j - 1, e1)
       ELSE RemoveInner(V, es, oi, j - 1, e1)

\* one iteration of the outer loop `for (i = edges.length - 1; i >= 0; i--)`
RemovePass(V, es, oi) ==
  RemoveInner(V, es, oi, oi - 1, IF oi < Len(es) THEN << At(es, oi) >> ELSE << >>)

\* ------------------------------------------------ collinear merging (107-138)
RECURSIVE findEdgeFrom(_, _, _, _)
findEdgeFrom(V, edge_list, point, k) ==
  IF k >= Len(edge_list) THEN -1
  ELSE IF 4 * Dist2(Start(V, At(edge_list, k)), point) < 1 THEN k
  ELSE findEdgeFrom(V, edge_list, point, k + 1)

findEdge(V, edge_list, point) == findEdgeFrom(V, edge_list, point, 0)

\* mutant: the last factor reads y where the code reads x
CollinearMistyped(p1, p2, p3) ==
  40 * Abs((p1.y - p2.y) * (p1.x - p3.x) - (p1.y - p3.y) * (p1.y - p2.y)) < 1

\* the test of line 128 on p1, p2, p3
Collinear(p1, p2, p3) ==
  40 * Abs((p1.y - p2.y) * (p1.x - p3.x) - (p1.y - p3.y) * (p1.x - p2.x)) < 1

\* the edge at index k can absorb the edge that starts at its end
CanMerge(V, es, k) ==
  LET p3Idx == findEdge(V, es, End(V, At(es, k)))
  IN p3Idx >= 0
     /\ Collinear(Start(V, At(es, k)), End(V, At(es, k)), End(V, At(es, p3Idx)))

\* mutant: the absorbing edge keeps its end
MergedEndKept(p2, p3) == p2

\* what the merge writes into the end vertex of the absorbing edge
MergedEnd(p2, p3) == [x |-> p3.x, y |-> p3.y]

\* the edge at index k absorbs the edge that starts at its end
MergeAt(V, es, k, p3Idx) ==
  [verts |-> [V EXCEPT ![At(es, k).v1] =
                MergedEnd(End(V, At(es, k)), End(V, At(es, p3Idx)))],
   edges |-> removeItems(es, p3Idx, 1)]

\* one pass of the `for` loop inside the while loop, from index k: merge at
\* the first index that can, then break
RECURSIVE MergePassFrom(_, _, _)
MergePassFrom(V, es, k) ==
  IF k >= Len(es) THEN [verts |-> V, edges |-> es]
  ELSE IF CanMerge(V, es, k) THEN MergeAt(V, es, k, findEdge(V, es, End(V, At(es, k))))
  ELSE MergePassFrom(V, es, k + 1)

MergePass(V, es) == MergePassFrom(V, es, 0)

\* ------------------------------------------------ component tagging (141-158)
SetTag(es, k, tag) == [es EXCEPT ![k + 1].tag = tag]

\* the first index >= from whose edge has no tag, -1 when there is none
RECURSIVE NextUntagged(_, _)
NextUntagged(es, from) ==
  IF from >= Len(es) THEN -1
  ELSE IF At(es, from).tag = Undefined THEN from
  ELSE NextUntagged(es, from + 1)

\* mutant: the walk does not stop at an edge that has a tag
EdgeTagContinuesTagged(es, ne) == ne >= 0

\* the condition of edgeTag's while loop
EdgeTagContinues(es, ne) == ne >= 0 /\ At(es, ne).tag = Undefined

\* ------------------------------------------------ getTagShape (160-174)
\* edges.filter(value.tag === tag)
FilterTag(es, tag) == SelectSeq(es, LAMBDA e : e.tag = tag)

\* [edge[0].x, edge[0].y]
VertexOf(V, e) == << V[e.v0].x, V[e.v0].y >>

\* what getTagShape returns: the vertices, or undefined when edges are left
TagShapeResult(temp, vs) ==
  IF Len(temp) = 0 THEN [defined |-> TRUE, vertices |-> vs]
  ELSE [defined |-> FALSE, vertices |-> << >>]

\* ------------------------------------------------ hole classification (4-51, 176-194)
\* A JavaScript value that is a number or an array of numbers.
Num(n) == [num |-> TRUE, n |-> n, arr |-> << >>]
Arr(s) == [num |-> FALSE, n |-> 0, arr |-> s]

\* ToNumber: an array goes through its string form, so [] is 0, [n] is n and a
\* longer array ("a,b") is NaN
ToNumber(v) ==
  IF v.num THEN [nan |-> FALSE, n |-> v.n]
  ELSE IF Len(v.arr) = 0 THEN [nan |-> FALSE, n |-> 0]
  ELSE IF Len(v.arr) = 1 THEN [nan |-> FALSE, n |-> v.arr[1]]
  ELSE [nan |-> TRUE, n |-> 0]

\* the test `intersect` of lines 30-31 for the polygon side from vs[j] to vs[i];
\* every comparison with NaN is false.  x < (xj - xi) * (y - yi) / (yj - yi) + xi
\* is compared without the division: yi # yj holds where it is evaluated
Intersect(x, y, pi, pj) ==
  \E nx \in {ToNumber(x)}, ny \in {ToNumber(y)} :
    \E xi \in {pi[1]}, yi \in {pi[2]}, xj \in {pj[1]}, yj \in {pj[2]} :
      /\ ~ny.nan
      /\ (yi > ny.n) # (yj > ny.n)
      /\ ~nx.nan
      /\ IF yj - yi > 0
         THEN (nx.n - xi) * (yj - yi) < (xj - xi) * (ny.n - yi)
         ELSE (nx.n - xi) * (yj - yi) > (xj - xi) * (ny.n - yi)

\* `inside` is flipped once per intersecting side; side i runs from vs[j],
\* j = i - 1 (the last vertex for i = 0), to vs[i]
pointInPolygon(point, vs) ==
  \E x \in {point[1]}, y \in {point[2]}, poly \in {vs} :
    Cardinality({k \in 1..Len(poly) :
                   Intersect(x, y, poly[k], poly[IF k = 1 THEN Len(poly) ELSE k - 1])})
      % 2 = 1

\* the point that polygonInPolygon builds from p1[i] and p1[i + 1]
PointAt(p1, k) == << p1[k + 1], p1[k + 2] >>

\* p1 in p2
polygonInPolygon(p1, p2) ==
  \E a \in {p1}, b \in {p2} :
    \A k \in {m \in 0..(Len(a) - 2) : m % 2 = 0} :
      pointInPolygon(PointAt(a, k), b)

\* the elements of a shape as the JavaScript values they are: [x, y] arrays
AsValues(shape) == [k \in 1..Len(shape) |-> Arr(shape[k])]

RECURSIVE uniqueFrom(_, _, _)
uniqueFrom(arr, k, out) ==
  IF k >= Len(arr) THEN out
  ELSE IF \E m \in 1..Len(out) : out[m] = At(arr, k)
       THEN uniqueFrom(arr, k + 1, out)
       ELSE uniqueFrom(arr, k + 1, Append(out, At(arr, k)))

unique(arr) == uniqueFrom(arr, 0, << >>)

\* the double loop of lines 183-193, pair number k is (i, j) = (k div n, k mod n)
RECURSIVE HoleTagsFrom(_, _, _)
HoleTagsFrom(shs, k, acc) ==
  LET n == Len(shs)
      si == k \div n
      sj == k % n
  IN IF k >= n * n THEN acc
     ELSE IF si # sj /\ polygonInPolygon(AsValues(At(shs, sj).vertices), At(shs, si).vertices)
          THEN HoleTagsFrom(shs, k + 1, Append(acc, sj))
          ELSE HoleTagsFrom(shs, k + 1, acc)

\* polygonInPolygon reads p1.length, and pointInPolygon reads vs.length
HolesThrow(shs) ==
  \E si, sj \in 0..(Len(shs) - 1) :
    /\ si # sj
    /\ \/ ~At(shs, sj).defined
       \/ ~At(shs, si).defined /\ Len(At(shs, sj).vertices) > 1

\* hole_tags before `hole_tags = unique(hole_tags)`
PushedHoleTags(shs) == HoleTagsFrom(shs, 0, << >>)

\* ------------------------------------------------ Actor.behave (actor.js 553-587)
\* Behavior.register(name, ctor): the names registered by the behaviors
RegisteredBehaviors == {"FaceTheMouse", "AnchorToScreen"}

\* a behavior type no constructor is registered for
BehaviorTypes == RegisteredBehaviors \cup {"Custom"}

\* new ctor(): an instance of the type the constructor declares (static TYPE)
NewBehavior(ctor, id) == [type |-> ctor, id |-> id]

\* Behavior.behaviors[behv]: << >> is undefined
LookupBehavior(name) ==
  IF name \in RegisteredBehaviors THEN << name >> ELSE << >>

\* mutant: only the very same instance counts as already added
AlreadyAddedInstance(bhvs, behavior) == bhvs[behavior.type] = << behavior >>

\* this.behaviors[behavior.type] is truthy
AlreadyAdded(bhvs, behavior) == bhvs[behavior.type] # << >>

\* this.behaviorList.push(behavior)
PushBehavior(list, behavior) == Append(list, behavior)

\* this.behaviors[behavior.type] = behavior
StoreBehavior(bhvs, behavior) == [bhvs EXCEPT ![behavior.type] = << behavior >>]

ActorInit ==
  /\ behaviorList = << >>
  /\ behaviors = [t \in BehaviorTypes |-> << >>]
  /\ addToCalls = << >>
  /\ setupCalls = << >>
  /\ nextId = 0
  /\ calls = 0
  /\ lastBehave = [behavior |-> << >>, outcome |-> "none"]

\* lines 574-586 on the resolved behavior (<< >> when it is undefined, and
\* reading behavior.type then throws); `made` instances were constructed
BehaveOn(behavior, made) ==
  /\ calls' = calls + 1
  /\ nextId' = nextId + made
  /\ IF behavior = << >>
     THEN /\ lastBehave' = [behavior |-> << >>, outcome |-> "threw"]
          /\ UNCHANGED <<behaviorList, behaviors, addToCalls, setupCalls>>
     ELSE IF AlreadyAdded(behaviors, behavior[1])
     THEN /\ lastBehave' = [behavior |-> behavior, outcome |-> "rejected"]
          /\ UNCHANGED <<behaviorList, behaviors, addToCalls, setupCalls>>
     ELSE /\ lastBehave' = [behavior |-> behavior, outcome |-> "added"]
          /\ behaviorList' = PushBehavior(behaviorList, behavior[1])
          /\ behaviors' = StoreBehavior(behaviors, behavior[1])
          /\ addToCalls' = Append(addToCalls, behavior[1])
          /\ setupCalls' = Append(setupCalls, behavior[1])
  /\ UNCHANGED <<layerVars, genVars, extVars>>

\* actor.behave('Name', settings)
BehaveByName ==
  /\ calls < MaxBehave
  /\ \E name \in BehaviorTypes :
       LET ctor == LookupBehavior(name)
       IN IF ctor = << >> THEN BehaveOn(<< >>, 0)
          ELSE BehaveOn(<< NewBehavior(ctor[1], nextId + 1) >>, 1)

\* actor.behave(Constructor, settings)
BehaveByConstructor ==
  /\ calls < MaxBehave
  /\ \E ctor \in RegisteredBehaviors :
       BehaveOn(<< NewBehavior(ctor, nextId + 1) >>, 1)

\* actor.behave(instance, settings) with an instance the caller just made
BehaveWithNewInstance ==
  /\ calls < MaxBehave
  /\ \E t \in BehaviorTypes :
       BehaveOn(<< [type |-> t, id |-> nextId + 1] >>, 1)

\* actor.behave(instance, settings) with an instance that was passed before
BehaveWithOldInstance ==
  /\ calls < MaxBehave
  /\ \E k \in 1..Len(behaviorList) :
       BehaveOn(<< behaviorList[k] >>, 0)

\* ------------------------------------------------ Actor components (actor.js 53-552)
\* null
Null == [t |-> "null"]

\* JavaScript values a dimension can hold; a number is kept as twice its
\* value (n2), so that half an integer width stays exact
JsUndefined == [t |-> "undefined", n2 |-> 0]
JsNaN == [t |-> "NaN", n2 |-> 0]
JsInfinity == [t |-> "Infinity", n2 |-> 0]
JsNumber(n) == [t |-> "number", n2 |-> 2 * n]

\* Number.isFinite(v)
NumberIsFinite(v) == v.t = "number"

\* v / 2, v a finite number
Half(v) == [t |-> "number", n2 |-> v.n2 \div 2]

\* w = h = 8
DefaultBoxSize == JsNumber(8)

\* the dimension values a settings object is given
DimValues == {JsUndefined, JsNaN, JsInfinity} \cup {JsNumber(n) : n \in (-1)..MaxDim}

ShapeNames == {"undefined", "Circle", "Box", "Polygon"}

\* the settings objects handed to initBody ("undefined": the property is absent)
Settings == [shape : ShapeNames, radius : DimValues, width : DimValues,
             height : DimValues]

\* initBody() and initBody({})
DefaultSettings == [shape |-> "undefined", radius |-> JsUndefined,
                    width |-> JsUndefined, height |-> JsUndefined]

\* settings.shape || 'Box'
ShapeName(settings) == IF settings.shape = "undefined" THEN "Box" ELSE settings.shape

\* lines 501-506: the radius handed to new physics.Circle
CircleRadius(settings, spr) ==
  IF ~NumberIsFinite(settings.radius) /\ spr # Null
  THEN Half(spr.width)
  ELSE settings.radius

\* mutant: with a sprite, a given height survives an absent width
BoxSizeKeepsHeight(settings, spr) ==
  IF ~NumberIsFinite(settings.width)
  THEN IF spr # Null
       THEN [w |-> spr.width,
             h |-> IF NumberIsFinite(settings.height) THEN settings.height
                   ELSE spr.height]
       ELSE [w |-> DefaultBoxSize, h |-> DefaultBoxSize]
  ELSE IF ~NumberIsFinite(settings.height)
       THEN [w |-> settings.width, h |-> settings.width]
       ELSE [w |-> settings.width, h |-> settings.height]

\* lines 510-524: the width and height handed to new physics.Box
BoxSize(settings, spr) ==
  IF ~NumberIsFinite(settings.width)
  THEN IF spr # Null
       THEN [w |-> spr.width, h |-> spr.height]
       ELSE [w |-> DefaultBoxSize, h |-> DefaultBoxSize]
  ELSE IF ~NumberIsFinite(settings.height)
       THEN [w |-> settings.width, h |-> settings.width]
       ELSE [w |-> settings.width, h |-> settings.height]

\* lines 499-530: the shape instance
ShapeOf(settings, spr) ==
  IF ShapeName(settings) = "Circle"
  THEN [kind |-> "Circle", radius |-> CircleRadius(settings, spr),
        width |-> JsUndefined, height |-> JsUndefined]
  ELSE IF ShapeName(settings) = "Box"
  THEN [kind |-> "Box", radius |-> JsUndefined,
        width |-> BoxSize(settings, spr).w, height |-> BoxSize(settings, spr).h]
  ELSE [kind |-> "Polygon", radius |-> JsUndefined,
        width |-> JsUndefined, height |-> JsUndefined]

\* new PIXI.Container / Sprite / Graphics / Text: a display object of the
\* given size, with its own position and no rotation
NewDisplayObject(id, w, h) ==
  [t |-> "sprite", id |-> id, rotation |-> 0, position |-> "own",
   width |-> JsNumber(w), height |-> JsNumber(h)]

\* new physics.Body(bodySettings): its own position and no rotation
NewBody(id, shape) ==
  [t |-> "body", id |-> id, rotation |-> 0, position |-> "own",
   shape |-> shape, parent |-> "none"]

\* component.position = this.position
SharePosition(component) == [component EXCEPT !.position = "actor"]

\* world.addBody(body)
AddBody(w, b) == w \cup {b.id}

\* body.remove(): the body leaves the world it is in
RemoveBody(w, b) == w \ {b.id}

\* layer.addChild(sprite)
AddChild(children, spr) == children \cup {spr.id}

\* sprite.remove(): the sprite leaves its parent
RemoveChild(children, spr) == children \ {spr.id}

Rotations == 0..MaxRot

\* the sizes a texture or a text gives its sprite
SpriteSizes == 0..MaxDim

\* the fields of a constructed Actor (lines 59-138)
CompInit ==
  /\ rotation = 0
  /\ sprite = Null
  /\ body = Null
  /\ scene = Null
  /\ layer = Null
  /\ removed = FALSE
  /\ world = {}
  /\ stage = {}
  /\ addBodyTwice = FALSE
  /\ nextComp = 0
  /\ thrown = NoError
  /\ settingsIn = DefaultSettings
  /\ ops = 0
  /\ lastOp = "none"

Called(name) ==
  /\ ops < MaxOps
  /\ ops' = ops + 1
  /\ lastOp' = name
  /\ UNCHANGED <<layerVars, genVars, actorVars, sceneVars, audioVars, settingsIn>>

\* actor.rotation = val (lines 154-163)
SetRotation ==
  /\ Called("rotation")
  /\ \E val \in Rotations :
       /\ rotation' = val
       /\ sprite' = IF sprite # Null THEN [sprite EXCEPT !.rotation = val] ELSE sprite
       /\ body' = IF body # Null THEN [body EXCEPT !.rotation = val] ELSE body
  /\ UNCHANGED <<scene, layer, removed, world, stage, addBodyTwice, nextComp, thrown>>

\* add<Kind>(..., null, 'sprite'); this.sprite.position = this.position;
\* if (this.layer) this.layer.addChild(this.sprite)
InitSpriteOf(w, h) ==
  /\ \E inst \in {SharePosition(NewDisplayObject(nextComp, w, h))} :
       /\ sprite' = inst
       /\ stage' = IF layer # Null THEN AddChild(stage, inst) ELSE stage
  /\ nextComp' = nextComp + 1
  /\ UNCHANGED <<rotation, body, scene, layer, removed, world, addBodyTwice, thrown>>

\* actor.initEmpty(): an empty container has no extent
InitEmpty ==
  /\ Called("initEmpty")
  /\ InitSpriteOf(0, 0)

\* actor.initSprite(texture)
InitSprite ==
  /\ Called("initSprite")
  /\ \E w \in SpriteSizes, h \in SpriteSizes : InitSpriteOf(w, h)

\* actor.initGraphics(): settings_.width || 8, settings_.height || 8
InitGraphics ==
  /\ Called("initGraphics")
  /\ InitSpriteOf(8, 8)

\* actor.initText(settings)
InitText ==
  /\ Called("initText")
  /\ \E w \in SpriteSizes, h \in SpriteSizes : InitSpriteOf(w, h)

\* actor.initAnimatedSprite(settings_): line 394 reads `settings`, which is
\* not declared, and the call throws before anything is assigned
InitAnimatedSprite ==
  /\ Called("initAnimatedSprite")
  /\ thrown' = "initAnimatedSprite"
  /\ UNCHANGED <<rotation, sprite, body, scene, layer, removed, world, stage,
                 addBodyTwice, nextComp>>

\* actor.initBody(settingsIn) (lines 495-552)
InitBody ==
  /\ Called("initBody")
  /\ \E inst \in {[SharePosition(NewBody(nextComp, ShapeOf(settingsIn, sprite)))
                     EXCEPT !.parent = "actor"]} :
       /\ body' = inst
       /\ world' = IF scene # Null THEN AddBody(world, inst) ELSE world
       /\ addBodyTwice' = (addBodyTwice \/ (scene # Null /\ inst.id \in world))
  /\ nextComp' = nextComp + 1
  /\ UNCHANGED <<rotation, sprite, scene, layer, removed, stage, thrown>>

\* actor.addTo(scene, layer) (lines 174-188)
AddTo ==
  /\ Called("addTo")
  /\ scene' = [t |-> "scene"]
  /\ layer' = [t |-> "layer"]
  /\ stage' = IF sprite # Null THEN AddChild(stage, sprite) ELSE stage
  /\ world' = IF body # Null THEN AddBody(world, body) ELSE world
  /\ addBodyTwice' = (addBodyTwice \/ (body # Null /\ body.id \in world))
  /\ UNCHANGED <<rotation, sprite, body, removed, nextComp, thrown>>

\* actor.remove() (lines 212-224)
Remove ==
  /\ Called("remove")
  /\ removed' = TRUE
  /\ stage' = IF sprite # Null THEN RemoveChild(stage, sprite) ELSE stage
  /\ world' = IF body # Null THEN RemoveBody(world, body) ELSE world
  /\ scene' = Null
  /\ layer' = Null
  /\ UNCHANGED <<rotation, sprite, body, addBodyTwice, nextComp, thrown>>

\* ------------------------------------------------ Scene (part_002)
\* Scene.updateOrder (lines 118-123)
SceneUpdateOrder == << "Object", "Timeline", "Physics", "Renderer" >>

SystemNames == {"Object", "Timeline", "Physics", "Renderer"}

\* mutant: the update phase runs before the pre-update phase
PhasesUpdateFirst == << "update", "preUpdate", "postUpdate" >>

\* the three phases of _update, in the order of lines 60-85
Phases == << "preUpdate", "update", "postUpdate" >>

\* the hooks a registered system may define
HookSets == {{}, {"update"}, {"preUpdate", "postUpdate"},
             {"preUpdate", "update", "postUpdate"}}

\* Scene.systems[name] when nothing was registered under name
NoSystem == [registered |-> FALSE, hooks |-> {}]

\* the system object handed to registerSystem
System(hooks) == [registered |-> TRUE, hooks |-> hooks]

\* Scene.registerSystem('Object', { init, update }) (lines 183-212)
ObjectSystem == System({"update"})

\* the registries a scene can be constructed under: 'Object' is registered
\* by the module itself
Registries ==
  {r \in [SystemNames -> {NoSystem} \cup {System(h) : h \in HookSets}] :
     r["Object"] = ObjectSystem}

\* lines 27-35: the names of Scene.updateOrder that are registered, from
\* position k on
OrderFrom(reg, k) ==
  SelectSeq(SubSeq(SceneUpdateOrder, k, Len(SceneUpdateOrder)),
            LAMBDA name : reg[name].registered)

Tags == {"0", "1"}

\* for (key in scene.objects): integer-like keys come first, ascending
KeyOrder == << "0", "1" >>

Objects == 1..MaxObjects

\* object.update(dt) calls scene.removeObject(target); 0: it removes nothing
Targets == 0..MaxObjects

\* arr.indexOf(item), -1 when absent
IndexFrom(arr, item, k) ==
  IF \E n \in (k + 1)..Len(arr) : arr[n] = item
  THEN (CHOOSE n \in (k + 1)..Len(arr) :
          arr[n] = item /\ \A m \in (k + 1)..(n - 1) : arr[m] # item) - 1
  ELSE -1

indexOf(arr, item) == IndexFrom(arr, item, 0)

\* utils.removeItems(arr, idx, 1) as pauseObjects and resumeObjects call it.
\* idx is -1 when the tag is not in the array, and what removeItems does then
\* is not fixed by its callers: it may shift the array down from index -1
\* (dropping one item, or setting a negative length, which throws), count
\* from the end as splice does, or leave the array alone
RemoveTagOutcomes(arr, idx) ==
  IF idx >= 0
  THEN {[arr |-> removeItems(arr, idx, 1), threw |-> FALSE]}
  ELSE {IF Len(arr) = 0 THEN [arr |-> arr, threw |-> TRUE]
        ELSE [arr |-> removeItems(arr, idx, 1), threw |-> FALSE],
        [arr |-> IF Len(arr) = 0 THEN arr ELSE SubSeq(arr, 1, Len(arr) - 1),
         threw |-> FALSE],
        [arr |-> arr, threw |-> FALSE]}

\* object.update(dt) of object o: update is recorded, the target is flagged
UpdateObject(o, st, behaviour) ==
  [st EXCEPT !.updated = Append(st.updated, o),
             !.flags = IF behaviour[o] = 0 THEN st.flags
                       ELSE [st.flags EXCEPT ![behaviour[o]] = TRUE]]

\* lines 202-209 on the list of key, from index k on
RECURSIVE PassList(_, _, _, _)
PassList(key, k, st, behaviour) ==
  IF k >= Len(st.objects[key][1]) THEN st
  ELSE LET o == At(st.objects[key][1], k)
           s1 == IF ~st.flags[o] THEN UpdateObject(o, st, behaviour) ELSE st
           s2 == IF s1.flags[o]
                 THEN [s1 EXCEPT !.objects[key] =
                         << removeItems(s1.objects[key][1], k, 1) >>]
                 ELSE s1
       IN PassList(key, k + 1, s2, behaviour)

\* lines 198-210: the keys of scene.objects in enumeration order
RECURSIVE PassKeys(_, _, _, _)
PassKeys(n, active, st, behaviour) ==
  IF n > Len(KeyOrder) THEN st
  ELSE LET key == KeyOrder[n]
       IN IF st.objects[key] = << >> \/ indexOf(active, key) < 0
          THEN PassKeys(n + 1, active, st, behaviour)
          ELSE PassKeys(n + 1, active, PassList(key, 0, st, behaviour), behaviour)

\* the Object system's update(scene, dt)
ObjectUpdate(objs, active, flags, behaviour) ==
  PassKeys(1, active, [objects |-> objs, flags |-> flags, updated |-> << >>],
           behaviour)

NoCall == [name |-> "none", object |-> 0, tag |-> "none"]

\* new Scene() under the registry reg (lines 10-36, 184-195)
SceneInit(reg) ==
  /\ systems = reg
  /\ lateSystems = {}
  /\ updateOrder = OrderFrom(reg, 1)
  /\ objects = [t \in Tags |-> IF t = "0" THEN << << >> >> ELSE << >>]
  /\ activeTags = << "0" >>
  /\ deactiveTags = << >>
  /\ removeFlag = [o \in Objects |-> FALSE]
  /\ onUpdate = [o \in Objects |-> 0]
  /\ updated = << >>
  /\ phase = 0
  /\ step = "idle"
  /\ hookIdx = 0
  /\ trace = << >>
  /\ tagCalls = 0
  /\ lastCall = NoCall
  /\ sceneThrown = NoError

\* a scene under the registry the module alone leaves
SceneIdle == SceneInit([n \in SystemNames |->
                          IF n = "Object" THEN ObjectSystem ELSE NoSystem])

NotScene == UNCHANGED <<layerVars, genVars, actorVars, compVars, audioVars>>

\* Scene.registerSystem(name, system), between two frames
RegisterSystem ==
  /\ phase = 0
  /\ \E name \in SystemNames, h \in HookSets :
       /\ lastCall' = [name |-> "registerSystem", object |-> 0, tag |-> name]
       /\ IF systems[name].registered
          THEN /\ sceneThrown' = "registerSystem"
               /\ UNCHANGED <<systems, lateSystems>>
          ELSE /\ systems' = [systems EXCEPT ![name] = System(h)]
               /\ lateSystems' = lateSystems \cup {name}
               /\ sceneThrown' = NoError
  /\ UNCHANGED <<updateOrder, objects, activeTags, deactiveTags, removeFlag,
                 onUpdate, updated, phase, step, hookIdx, trace, tagCalls>>
  /\ NotScene

\* scene.addObject(object, tag): line 142 calls this.objects.indexOf, and
\* this.objects is the plain object of line 189, which has no indexOf
AddObject ==
  /\ phase = 0
  /\ \E o \in Objects, tag \in Tags \cup {"undefined"} :
       lastCall' = [name |-> "addObject", object |-> o,
                    tag |-> IF tag = "undefined" THEN "0" ELSE tag]
  /\ sceneThrown' = "addObject"
  /\ UNCHANGED <<systems, lateSystems, updateOrder, objects, activeTags,
                 deactiveTags, removeFlag, onUpdate, updated, phase, step,
                 hookIdx, trace, tagCalls>>
  /\ NotScene

\* scene.removeObject(object)
RemoveObject ==
  /\ phase = 0
  /\ \E o \in Objects :
       /\ removeFlag' = [removeFlag EXCEPT ![o] = TRUE]
       /\ lastCall' = [name |-> "removeObject", object |-> o, tag |-> "none"]
  /\ sceneThrown' = NoError
  /\ UNCHANGED <<systems, lateSystems, updateOrder, objects, activeTags,
                 deactiveTags, onUpdate, updated, phase, step, hookIdx, trace,
                 tagCalls>>
  /\ NotScene

\* scene.pauseObjects(tag)
PauseObjects ==
  /\ phase = 0
  /\ tagCalls < MaxTagCalls
  /\ tagCalls' = tagCalls + 1
  /\ \E tag \in Tags :
       /\ lastCall' = [name |-> "pauseObjects", object |-> 0, tag |-> tag]
       /\ IF objects[tag] = << >>
          THEN /\ sceneThrown' = NoError
               /\ UNCHANGED <<activeTags, deactiveTags>>
          ELSE \E r \in RemoveTagOutcomes(activeTags, indexOf(activeTags, tag)) :
                 IF r.threw
                 THEN /\ sceneThrown' = "pauseObjects"
                      /\ UNCHANGED <<activeTags, deactiveTags>>
                 ELSE /\ sceneThrown' = NoError
                      /\ activeTags' = r.arr
                      /\ deactiveTags' = Append(deactiveTags, tag)
  /\ UNCHANGED <<systems, lateSystems, updateOrder, objects, removeFlag,
                 onUpdate, updated, phase, step, hookIdx, trace>>
  /\ NotScene

\* scene.resumeObjects(tag)
ResumeObjects ==
  /\ phase = 0
  /\ tagCalls < MaxTagCalls
  /\ tagCalls' = tagCalls + 1
  /\ \E tag \in Tags :
       /\ lastCall' = [name |-> "resumeObjects", object |-> 0, tag |-> tag]
       /\ IF objects[tag] = << >>
          THEN /\ sceneThrown' = NoError
               /\ UNCHANGED <<activeTags, deactiveTags>>
          ELSE \E r \in RemoveTagOutcomes(deactiveTags, indexOf(deactiveTags, tag)) :
                 IF r.threw
                 THEN /\ sceneThrown' = "resumeObjects"
                      /\ UNCHANGED <<activeTags, deactiveTags>>
                 ELSE /\ sceneThrown' = NoError
                      /\ deactiveTags' = r.arr
                      /\ activeTags' = Append(activeTags, tag)
  /\ UNCHANGED <<systems, lateSystems, updateOrder, objects, removeFlag,
                 onUpdate, updated, phase, step, hookIdx, trace>>
  /\ NotScene

\* Scene.systems.Object.update(scene, dt) (lines 196-211)
ObjectSystemUpdate ==
  /\ phase = 0
  /\ \E r \in {ObjectUpdate(objects, activeTags, removeFlag, onUpdate)} :
       /\ objects' = r.objects
       /\ removeFlag' = r.flags
       /\ updated' = r.updated
  /\ lastCall' = [name |-> "update", object |-> 0, tag |-> "none"]
  /\ sceneThrown' = NoError
  /\ UNCHANGED <<systems, lateSystems, updateOrder, activeTags, deactiveTags,
                 onUpdate, phase, step, hookIdx, trace, tagCalls>>
  /\ NotScene

\* scene._update(delta) is entered (lines 57-61)
UpdateBegin ==
  /\ phase = 0
  /\ phase' = 1
  /\ step' = "systems"
  /\ hookIdx' = 0
  /\ trace' = << >>
  /\ lastCall' = [name |-> "_update", object |-> 0, tag |-> "none"]
  /\ sceneThrown' = NoError
  /\ UNCHANGED <<systems, lateSystems, updateOrder, objects, activeTags,
                 deactiveTags, removeFlag, onUpdate, updated, tagCalls>>
  /\ NotScene

\* one turn of a for loop over this.updateOrder (lines 61-64, 70-73, 79-82):
\* sys && sys[hook] && sys[hook](this, delta)
SystemHook ==
  /\ phase > 0
  /\ step = "systems"
  /\ hookIdx < Len(updateOrder)
  /\ hookIdx' = hookIdx + 1
  /\ \E name \in {At(updateOrder, hookIdx)}, hook \in {Phases[phase]} :
       IF systems[name].registered /\ hook \in systems[name].hooks
       THEN /\ trace' = Append(trace, [kind |-> "hook", by |-> name, phase |-> hook])
            /\ IF name = "Object" /\ hook = "update"
               THEN \E r \in {ObjectUpdate(objects, activeTags, removeFlag, onUpdate)} :
                      /\ objects' = r.objects
                      /\ removeFlag' = r.flags
                      /\ updated' = r.updated
               ELSE UNCHANGED <<objects, removeFlag, updated>>
       ELSE UNCHANGED <<trace, objects, removeFlag, updated>>
  /\ UNCHANGED <<systems, lateSystems, updateOrder, activeTags, deactiveTags,
                 onUpdate, phase, step, tagCalls, lastCall, sceneThrown>>
  /\ NotScene

\* this.emit(phase, delta) after the loop (lines 66, 75, 84)
EmitPhase ==
  /\ phase > 0
  /\ step = "systems"
  /\ hookIdx >= Len(updateOrder)
  /\ trace' = Append(trace, [kind |-> "emit", by |-> "scene", phase |-> Phases[phase]])
  /\ step' = "own"
  /\ UNCHANGED <<systems, lateSystems, updateOrder, objects, activeTags,
                 deactiveTags, removeFlag, onUpdate, updated, phase, hookIdx,
                 tagCalls, lastCall, sceneThrown>>
  /\ NotScene

\* this.preUpdate(delta) / this.update(delta) / this.postUpdate(delta), and
\* on to the next phase or out of _update (lines 67, 76, 85)
OwnPhase ==
  /\ phase > 0
  /\ step = "own"
  /\ trace' = Append(trace, [kind |-> "own", by |-> "scene", phase |-> Phases[phase]])
  /\ IF phase < Len(Phases)
     THEN /\ phase' = phase + 1
          /\ step' = "systems"
     ELSE /\ phase' = 0
          /\ step' = "idle"
  /\ hookIdx' = 0
  /\ UNCHANGED <<systems, lateSystems, updateOrder, objects, activeTags,
                 deactiveTags, removeFlag, onUpdate, updated, tagCalls, lastCall,
                 sceneThrown>>
  /\ NotScene

\* ------------------------------------------------ audio loader (part_000)
\* the file names (and ids) sounds are registered under
SoundNames == 1..MaxSounds

\* no id argument
NoId == 0

\* id || src
SoundKey(src, id) == IF id = NoId THEN src ELSE id

\* sounds[id || src] || sounds[src]
AlreadyRegistered(snds, src, id) == SoundKey(src, id) \in snds \/ src \in snds

\* mutant: completion as soon as one sound has reported
AllReportedAfterOne(loaded, toLoad) == loaded >= 1

\* soundsLoadedCount === soundsToLoadCount
AllReported(loaded, toLoad) == loaded = toLoad

\* the module's variables as the module body leaves them (lines 7-13)
AudioInit ==
  /\ sounds = {}
  /\ soundsToLoadCount = 0
  /\ soundsLoadedCount = 0
  /\ progressCB = FALSE
  /\ completeCB = FALSE
  /\ loading = {}
  /\ timers = 0
  /\ started = FALSE
  /\ startedWith = {}
  /\ completeCalls = 0
  /\ progressCalls = 0
  /\ reports = 0
  /\ lateCallback = FALSE

NotAudio == UNCHANGED <<layerVars, genVars, actorVars, compVars, sceneVars>>

\* addSound(src, id) (lines 15-29)
AddSound ==
  /\ \E src \in SoundNames, id \in {NoId} \cup SoundNames :
       IF AlreadyRegistered(sounds, src, id)
       THEN UNCHANGED <<sounds, soundsToLoadCount>>
       ELSE /\ sounds' = sounds \cup {SoundKey(src, id)}
            /\ soundsToLoadCount' = soundsToLoadCount + 1
  /\ UNCHANGED <<soundsLoadedCount, progressCB, completeCB, loading, timers,
                 started, startedWith, completeCalls, progressCalls, reports,
                 lateCallback>>
  /\ NotAudio

\* start(onComplete, onProgress) (lines 45-54): every registered sound is
\* asked to load, and onComplete is called at once when there is none
StartLoader ==
  /\ ~started
  /\ started' = TRUE
  /\ startedWith' = sounds
  /\ progressCB' = TRUE
  /\ completeCB' = TRUE
  /\ loading' = sounds
  /\ completeCalls' = IF Cardinality(sounds) = 0 THEN completeCalls + 1
                      ELSE completeCalls
  /\ UNCHANGED <<sounds, soundsToLoadCount, soundsLoadedCount, timers,
                 progressCalls, reports, lateCallback>>
  /\ NotAudio

\* onload(snd, err) (lines 31-42): a sound asked to load reports, as loaded
\* or as failed
Report ==
  /\ \E snd \in loading, err \in BOOLEAN :
       loading' = loading \ {snd}
  /\ reports' = reports + 1
  /\ soundsLoadedCount' = soundsLoadedCount + 1
  /\ progressCalls' = IF progressCB THEN progressCalls + 1 ELSE progressCalls
  /\ lateCallback' = (lateCallback \/ (progressCB /\ completeCalls > 0))
  /\ IF AllReported(soundsLoadedCount + 1, soundsToLoadCount) /\ completeCB
     THEN /\ timers' = timers + 1
          /\ completeCB' = FALSE
          /\ progressCB' = FALSE
     ELSE UNCHANGED <<timers, completeCB, progressCB>>
  /\ UNCHANGED <<sounds, soundsToLoadCount, started, startedWith, completeCalls>>
  /\ NotAudio

\* the timer of setTimeout(completeCB, 0) fires (line 36)
CompleteTimer ==
  /\ timers > 0
  /\ timers' = timers - 1
  /\ completeCalls' = completeCalls + 1
  /\ lateCallback' = (lateCallback \/ completeCalls > 0)
  /\ UNCHANGED <<sounds, soundsToLoadCount, soundsLoadedCount, progressCB,
                 completeCB, loading, started, startedWith, progressCalls,
                 reports>>
  /\ NotAudio

\* everything outside the collision layer and Actor.behave, as constructed
ExtInit ==
  /\ CompInit
  /\ SceneIdle
  /\ AudioInit

\* ------------------------------------------------------------- inputs
TileSizes == 1..MaxTile

Cells(w, h) == [1..(w * h) -> {0, 1}]

\* a 3x3 solid block whose centre tile is empty
RingData == << 1, 1, 1,
               1, 0, 1,
               1, 1, 1 >>

Defs ==
  UNION {{[tilesize |-> t, width |-> w, height |-> h, data |-> d] : d \in Cells(w, h)} :
           t \in TileSizes, w \in 0..MaxWidth, h \in 0..MaxHeight}
  \cup {[tilesize |-> t, width |-> 3, height |-> 3, data |-> RingData] : t \in TileSizes}

\* ------------------------------------------------------------- actions
\* the locals of generateShapes before its first statement
LocalsInit ==
  /\ pc = "createEdges"
  /\ verts = << >>
  /\ edges = << >>
  /\ edge_list_size = 0
  /\ last_edge_list_size = 0
  /\ i = 0
  /\ current_tag = 0
  /\ next_edge = -1
  /\ temp_edges = << >>
  /\ vertices = << >>
  /\ shapes = << >>
  /\ hole_tags = << >>
  /\ error = NoError
  /\ run = 1
  /\ firstShapes = << >>
  /\ firstHoles = << >>

\* new CollisionLayer(def): the fields are set, generateShapes is about to run
Construct(def) ==
  /\ tilesize = def.tilesize
  /\ width = def.width
  /\ height = def.height
  /\ data = lift(def.data, def.width, def.height)
  /\ LocalsInit
  /\ ActorInit
  /\ ExtInit

Init == \E def \in Defs : Construct(def)

\* the layers of the largest tile size only
LiveInit == \E def \in {d \in Defs : d.tilesize = MaxTile} : Construct(def)

CreateEdges ==
  /\ pc = "createEdges"
  /\ \E r \in {CreateEdgesOf(data, width, height, tilesize, edges)} :
       /\ verts' = r.verts
       /\ edges' = r.edges
       /\ i' = Len(r.edges) - 1
  /\ pc' = "removeDuplicated"
  /\ UNCHANGED <<extVars, actorVars, layerVars, edge_list_size, last_edge_list_size,
                 current_tag, next_edge, temp_edges, vertices, shapes, hole_tags,
                 error, run, firstShapes, firstHoles>>

\* one iteration of the outer loop of lines 95-104
RemoveDuplicatedLoop ==
  /\ pc = "removeDuplicated"
  /\ i >= 0
  /\ \E r \in {RemovePass(verts, edges, i)} :
       /\ edges' = r.edges
       /\ error' = IF r.error THEN "isEdgeEqual" ELSE NoError
       /\ pc' = IF r.error THEN "threw" ELSE "removeDuplicated"
  /\ i' = i - 1
  /\ UNCHANGED <<extVars, actorVars, layerVars, verts, edge_list_size, last_edge_list_size,
                 current_tag, next_edge, temp_edges, vertices, shapes, hole_tags,
                 run, firstShapes, firstHoles>>

RemoveDuplicatedExit ==
  /\ pc = "removeDuplicated"
  /\ i < 0
  /\ pc' = "mergeInit"
  /\ UNCHANGED <<extVars, actorVars, layerVars, verts, edges, edge_list_size,
                 last_edge_list_size, i, current_tag, next_edge, temp_edges,
                 vertices, shapes, hole_tags, error, run, firstShapes, firstHoles>>

\* var edge_list_size = edges.length, last_edge_list_size = 0
MergeInit ==
  /\ pc = "mergeInit"
  /\ edge_list_size' = Len(edges)
  /\ last_edge_list_size' = 0
  /\ pc' = "merge"
  /\ UNCHANGED <<extVars, actorVars, layerVars, verts, edges, i, current_tag, next_edge, temp_edges,
                 vertices, shapes, hole_tags, error, run, firstShapes, firstHoles>>

\* one iteration of `while (edge_list_size !== last_edge_list_size)`
MergeLoop ==
  /\ pc = "merge"
  /\ edge_list_size # last_edge_list_size
  /\ \E r \in {MergePass(verts, edges)} :
       /\ verts' = r.verts
       /\ edges' = r.edges
       /\ last_edge_list_size' = Len(r.edges)
  /\ edge_list_size' = Len(edges)
  /\ UNCHANGED <<extVars, actorVars, layerVars, pc, i, current_tag, next_edge, temp_edges, vertices,
                 shapes, hole_tags, error, run, firstShapes, firstHoles>>

MergeExit ==
  /\ pc = "merge"
  /\ edge_list_size = last_edge_list_size
  /\ pc' = "tagLoop"
  /\ i' = 0
  /\ current_tag' = 0
  /\ UNCHANGED <<extVars, actorVars, layerVars, verts, edges, edge_list_size, last_edge_list_size,
                 next_edge, temp_edges, vertices, shapes, hole_tags, error, run,
                 firstShapes, firstHoles>>

\* the `for` loop of lines 152-158 up to its next call of edgeTag, and the
\* first two statements of edgeTag
TagLoop ==
  /\ pc = "tagLoop"
  /\ \E k \in {NextUntagged(edges, i)} :
        IF k < 0
        THEN /\ pc' = "shapeLoop"
             /\ i' = 0
             /\ shapes' = << >>
             /\ UNCHANGED <<edges, next_edge>>
        ELSE /\ edges' = SetTag(edges, k, current_tag)
             /\ next_edge' = findEdge(verts, edges, End(verts, At(edges, k)))
             /\ i' = k
             /\ pc' = "edgeTag"
             /\ UNCHANGED shapes
  /\ UNCHANGED <<extVars, actorVars, layerVars, verts, edge_list_size, last_edge_list_size,
                 current_tag, temp_edges, vertices, hole_tags, error, run,
                 firstShapes, firstHoles>>

\* one iteration of edgeTag's while loop
EdgeTagWalk ==
  /\ pc = "edgeTag"
  /\ EdgeTagContinues(edges, next_edge)
  /\ edges' = SetTag(edges, next_edge, current_tag)
  /\ next_edge' = findEdge(verts, edges, End(verts, At(edges, next_edge)))
  /\ UNCHANGED <<extVars, actorVars, layerVars, pc, verts, edge_list_size, last_edge_list_size, i,
                 current_tag, temp_edges, vertices, shapes, hole_tags, error, run,
                 firstShapes, firstHoles>>

\* edgeTag returns; current_tag += 1; i++
EdgeTagReturn ==
  /\ pc = "edgeTag"
  /\ ~EdgeTagContinues(edges, next_edge)
  /\ current_tag' = current_tag + 1
  /\ i' = i + 1
  /\ pc' = "tagLoop"
  /\ UNCHANGED <<extVars, actorVars, layerVars, verts, edges, edge_list_size, last_edge_list_size,
                 next_edge, temp_edges, vertices, shapes, hole_tags, error, run,
                 firstShapes, firstHoles>>

\* the `for` loop of lines 178-180 and getTagShape up to its while loop
ShapeLoop ==
  /\ pc = "shapeLoop"
  /\ IF i >= current_tag
     THEN /\ pc' = "holes"
          /\ UNCHANGED <<temp_edges, vertices, next_edge, error>>
     ELSE \E temp \in {FilterTag(edges, i)} :
             IF Len(temp) = 0
             THEN /\ error' = "getTagShape"
                  /\ pc' = "threw"
                  /\ UNCHANGED <<temp_edges, vertices, next_edge>>
             ELSE /\ temp_edges' = removeItems(temp, 0, 1)
                  /\ vertices' = << VertexOf(verts, temp[1]) >>
                  /\ next_edge' = findEdge(verts, removeItems(temp, 0, 1), End(verts, temp[1]))
                  /\ pc' = "getTagShape"
                  /\ UNCHANGED error
  /\ UNCHANGED <<extVars, actorVars, layerVars, verts, edges, edge_list_size, last_edge_list_size, i,
                 current_tag, shapes, hole_tags, run, firstShapes, firstHoles>>

\* one iteration of getTagShape's while loop
GetTagShapeWalk ==
  /\ pc = "getTagShape"
  /\ next_edge >= 0
  /\ \E e \in {At(temp_edges, next_edge)}, rest \in {removeItems(temp_edges, next_edge, 1)} :
        /\ temp_edges' = rest
        /\ vertices' = Append(vertices, VertexOf(verts, e))
        /\ next_edge' = findEdge(verts, rest, End(verts, e))
  /\ UNCHANGED <<extVars, actorVars, layerVars, pc, verts, edges, edge_list_size, last_edge_list_size,
                 i, current_tag, shapes, hole_tags, error, run, firstShapes,
                 firstHoles>>

\* getTagShape returns and its result is pushed to shapes
GetTagShapeReturn ==
  /\ pc = "getTagShape"
  /\ next_edge < 0
  /\ shapes' = Append(shapes, TagShapeResult(temp_edges, vertices))
  /\ i' = i + 1
  /\ pc' = "shapeLoop"
  /\ UNCHANGED <<extVars, actorVars, layerVars, verts, edges, edge_list_size, last_edge_list_size,
                 current_tag, next_edge, temp_edges, vertices, hole_tags, error,
                 run, firstShapes, firstHoles>>

\* lines 182-194
ClassifyHoles ==
  /\ pc = "holes"
  /\ IF HolesThrow(shapes)
     THEN /\ error' = "polygonInPolygon"
          /\ pc' = "threw"
          /\ UNCHANGED hole_tags
     ELSE /\ \E pushed \in {PushedHoleTags(shapes)} :
               \E tags \in {unique(pushed)} : hole_tags' = tags
          /\ pc' = "done"
          /\ UNCHANGED error
  /\ UNCHANGED <<extVars, actorVars, layerVars, verts, edges, edge_list_size, last_edge_list_size, i,
                 current_tag, next_edge, temp_edges, vertices, shapes, run,
                 firstShapes, firstHoles>>

\* generateShapes is called again on the same layer; the locals of the first
\* call are gone, its shapes and hole tags are kept for comparison
Rerun ==
  /\ pc = "done"
  /\ run = 1
  /\ run' = 2
  /\ firstShapes' = shapes
  /\ firstHoles' = hole_tags
  /\ pc' = "createEdges"
  /\ verts' = << >>
  /\ edge_list_size' = 0
  /\ last_edge_list_size' = 0
  /\ i' = 0
  /\ current_tag' = 0
  /\ next_edge' = -1
  /\ temp_edges' = << >>
  /\ vertices' = << >>
  /\ shapes' = << >>
  /\ hole_tags' = << >>
  /\ UNCHANGED <<extVars, actorVars, layerVars, edges, error>>

Next ==
  \/ CreateEdges
  \/ RemoveDuplicatedLoop
  \/ RemoveDuplicatedExit
  \/ MergeInit
  \/ MergeLoop
  \/ MergeExit
  \/ TagLoop
  \/ EdgeTagWalk
  \/ EdgeTagReturn
  \/ ShapeLoop
  \/ GetTagShapeWalk
  \/ GetTagShapeReturn
  \/ ClassifyHoles
  \/ Rerun

Spec == Init /\ [][Next]_vars

\* one run of generateShapes
RunNext ==
  \/ CreateEdges
  \/ RemoveDuplicatedLoop
  \/ RemoveDuplicatedExit
  \/ MergeInit
  \/ MergeLoop
  \/ MergeExit
  \/ TagLoop
  \/ EdgeTagWalk
  \/ EdgeTagReturn
  \/ ShapeLoop
  \/ GetTagShapeWalk
  \/ GetTagShapeReturn
  \/ ClassifyHoles

\* generateShapes is synchronous: a step that can be taken is taken
LiveSpec == LiveInit /\ [][RunNext]_vars /\ WF_vars(RunNext)

\* no collision layer at work
IdleLayer ==
  /\ tilesize = 1
  /\ width = 0
  /\ height = 0
  /\ data = << >>
  /\ pc = "idle"
  /\ verts = << >>
  /\ edges = << >>
  /\ edge_list_size = 0
  /\ last_edge_list_size = 0
  /\ i = 0
  /\ current_tag = 0
  /\ next_edge = -1
  /\ temp_edges = << >>
  /\ vertices = << >>
  /\ shapes = << >>
  /\ hole_tags = << >>
  /\ error = NoError
  /\ run = 1
  /\ firstShapes = << >>
  /\ firstHoles = << >>

\* an actor, and no collision layer at work
ActorSpecInit ==
  /\ IdleLayer
  /\ ActorInit
  /\ ExtInit

ActorNext ==
  \/ BehaveByName
  \/ BehaveByConstructor
  \/ BehaveWithNewInstance
  \/ BehaveWithOldInstance

ActorSpec == ActorSpecInit /\ [][ActorNext]_vars

\* the sprites an actor can hold when initBody is called
SpritesBefore ==
  {SharePosition(NewDisplayObject(0, w, h)) : w \in SpriteSizes, h \in SpriteSizes}

\* initBody as a function of its settings and of this.sprite
BodySpecInit ==
  /\ IdleLayer
  /\ ActorInit
  /\ rotation = 0
  /\ body = Null
  /\ scene = Null
  /\ layer = Null
  /\ removed = FALSE
  /\ world = {}
  /\ stage = {}
  /\ addBodyTwice = FALSE
  /\ thrown = NoError
  /\ ops = 0
  /\ lastOp = "none"
  /\ settingsIn \in Settings
  /\ \/ sprite = Null /\ nextComp = 0
     \/ sprite \in SpritesBefore /\ nextComp = 1
  /\ SceneIdle
  /\ AudioInit

BodyNext == InitBody

BodySpec == BodySpecInit /\ [][BodyNext]_vars

\* the life of one actor: rotation, components, scene
CompSpecInit ==
  /\ IdleLayer
  /\ ActorInit
  /\ ExtInit

CompNext ==
  \/ SetRotation
  \/ InitEmpty
  \/ InitSprite
  \/ InitGraphics
  \/ InitText
  \/ InitAnimatedSprite
  \/ InitBody
  \/ AddTo
  \/ Remove

CompSpec == CompSpecInit /\ [][CompNext]_vars

\* ------------------------------------------------------------- properties
\* an edge as <<x of start, y of start, x of end, y of end>>
GeomOf(V, e) == << V[e.v0].x, V[e.v0].y, V[e.v1].x, V[e.v1].y >>

EdgeSet(V, es) == {GeomOf(V, es[k]) : k \in 1..Len(es)}

\* the cell in row r, column c (0-based); outside the grid nothing is solid
SolidAt(r, c) ==
  r \in 0..(height - 1) /\ c \in 0..(width - 1) /\ data[r + 1][c + 1] # 0

\* the sides of solid cells whose other side is empty or outside the grid,
\* directed as the code directs them (left, top, right, bottom)
BoundaryEdges ==
  LET t == tilesize
  IN UNION {
       LET x == t * c
           y == t * r
       IN IF ~SolidAt(r, c) THEN {}
          ELSE (IF SolidAt(r, c - 1) THEN {} ELSE {<< x, y + t, x, y >>})
               \cup (IF SolidAt(r - 1, c) THEN {} ELSE {<< x, y, x + t, y >>})
               \cup (IF SolidAt(r, c + 1) THEN {} ELSE {<< x + t, y, x + t, y + t >>})
               \cup (IF SolidAt(r + 1, c) THEN {} ELSE {<< x + t, y + t, x, y + t >>})
       : r \in 0..(height - 1), c \in 0..(width - 1)}

\* the tile-long pieces an axis-aligned edge consists of; an edge that is not
\* a run of whole tile sides has the piece BadPiece
BadPiece == << -1, -1, -1, -1 >>

Pieces(g) ==
  LET t == tilesize
      dx == g[3] - g[1]
      dy == g[4] - g[2]
      sx == IF dx > 0 THEN 1 ELSE -1
      sy == IF dy > 0 THEN 1 ELSE -1
  IN IF dx = 0 /\ dy # 0 /\ dy % t = 0
     THEN {<< g[1], g[2] + sy * t * (k - 1), g[1], g[2] + sy * t * k >> :
             k \in 1..((sy * dy) \div t)}
     ELSE IF dy = 0 /\ dx # 0 /\ dx % t = 0
     THEN {<< g[1] + sx * t * (k - 1), g[2], g[1] + sx * t * k, g[2] >> :
             k \in 1..((sx * dx) \div t)}
     ELSE {BadPiece}

\* p1 -> p2 -> p3 goes straight on
Straight(p1, p2, p3) ==
  (p2.x - p1.x) * (p3.y - p2.y) = (p2.y - p1.y) * (p3.x - p2.x)

AfterMerge == {"tagLoop", "edgeTag", "shapeLoop", "getTagShape", "holes", "done"}
AfterTagging == {"shapeLoop", "getTagShape", "holes", "done"}

AllCells == {data[r][c] : r \in 1..height, c \in 1..width}
IsBlock == width >= 1 /\ height >= 1 /\ AllCells = {1}
IsEmptyGrid == AllCells \subseteq {0}
IsRing == width = 3 /\ height = 3 /\ data = lift(RingData, 3, 3)

ShapeVertexSet(sh) == {sh.vertices[k] : k \in 1..Len(sh.vertices)}

\* consecutive vertices (cyclically) differ in exactly one coordinate
IsRectilinearCycle(vs) ==
  \A k \in 1..Len(vs) :
    LET a == vs[k]
        b == vs[(k % Len(vs)) + 1]
    IN (a[1] = b[1]) # (a[2] = b[2])

\* C1: a fully solid w x h block yields exactly one polygon, whose 4 vertices
\* are the corners of the (w*t) x (h*t) rectangle, and no hole is recorded.
C1_BlockIsOneRectangle ==
  (pc = "done" /\ IsBlock) =>
    /\ Len(shapes) = 1
    /\ shapes[1].defined
    /\ Len(shapes[1].vertices) = 4
    /\ ShapeVertexSet(shapes[1]) =
         {<< 0, 0 >>, << width * tilesize, 0 >>,
          << width * tilesize, height * tilesize >>, << 0, height * tilesize >>}
    /\ IsRectilinearCycle(shapes[1].vertices)
    /\ hole_tags = << >>

C1_Witness == pc = "done" /\ IsBlock /\ width = 2 /\ height = 2

\* C2: the 3x3 ring yields exactly two polygons of 4 vertices each, and the
\* inner polygon (tag 1), and only it, is recorded as a hole.
C2_RingInnerIsHole ==
  (pc = "done" /\ IsRing) =>
    /\ Len(shapes) = 2
    /\ \A k \in 1..2 : shapes[k].defined /\ Len(shapes[k].vertices) = 4
    /\ hole_tags = << 1 >>

\* C3: when the shared-edge cancellation loop finishes, the edge list holds
\* exactly the sides of solid cells that face an empty cell or the outside,
\* each once, and the loop has not read past the end of the list.
C3_CancellationExact ==
  /\ error # "isEdgeEqual"
  /\ pc = "mergeInit" =>
       /\ EdgeSet(verts, edges) = BoundaryEdges
       /\ Len(edges) = Cardinality(BoundaryEdges)

C3_Witness ==
  pc = "mergeInit" /\ IsBlock /\ width = 2 /\ height = 2 /\ Len(edges) = 8

\* C4: when the merging loop has terminated no edge ends where a collinear
\* edge starts, and the edges cover exactly the boundary sides they covered
\* before merging, none twice.
C4_MergeFixedPoint ==
  pc \in AfterMerge =>
    /\ \A a, b \in 1..Len(edges) :
         (a # b /\ End(verts, edges[a]) = Start(verts, edges[b])) =>
           ~Straight(Start(verts, edges[a]), End(verts, edges[a]), End(verts, edges[b]))
    /\ UNION {Pieces(g) : g \in EdgeSet(verts, edges)} = BoundaryEdges
    /\ \A a, b \in 1..Len(edges) :
         a # b => Pieces(GeomOf(verts, edges[a])) \cap Pieces(GeomOf(verts, edges[b])) = {}

C4_Witness ==
  pc = "tagLoop" /\ Len(edges) > 0 /\ Len(edges) < Cardinality(BoundaryEdges)

\* the indices of the edges that carry tag t
Tagged(t) == {k \in 1..Len(edges) : edges[k].tag = t}

\* the edges with tag t that start where edge k ends
NextInTag(t, k) ==
  {m \in Tagged(t) : Start(verts, edges[m]) = End(verts, edges[k])}

\* the edges reached from the edges in `from` in at most n steps inside tag t
RECURSIVE ReachInTag(_, _, _)
ReachInTag(t, from, n) ==
  IF n = 0 THEN from
  ELSE ReachInTag(t, from \cup UNION {NextInTag(t, k) : k \in from}, n - 1)

\* C5: after tagging every edge carries a tag, and the edges of one tag form
\* exactly one closed chain.
C5_TagIsClosedChain ==
  pc \in AfterTagging =>
    /\ \A k \in 1..Len(edges) : edges[k].tag \in 0..(current_tag - 1)
    /\ \A t \in 0..(current_tag - 1) :
         \A k \in Tagged(t) :
           /\ Cardinality(NextInTag(t, k)) = 1
           /\ ReachInTag(t, NextInTag(t, k), Cardinality(Tagged(t))) = Tagged(t)

\* C6: every polygon in the shapes list is a polygon of at least 3 vertices.
C6_ShapesHaveThreeVertices ==
  \A k \in 1..Len(shapes) : shapes[k].defined /\ Len(shapes[k].vertices) >= 3

\* C7: a grid without cells and a grid whose cells are all empty run through
\* without an error and yield no edges, no tags, no shapes and no hole tags.
C7_EmptyGridEmptyResult ==
  IsEmptyGrid =>
    /\ error = NoError
    /\ pc # "threw"
    /\ edges = << >>
    /\ current_tag = 0
    /\ shapes = << >>
    /\ hole_tags = << >>

C7_Witness == pc = "done" /\ IsEmptyGrid /\ width = 2 /\ height = 2

\* C8: generateShapes runs to completion on every grid: no TypeError is
\* thrown, getTagShape never returns undefined, and the run ends in "done".
C8_RunsToCompletion ==
  /\ [](error = NoError /\ pc # "threw" /\ \A k \in 1..Len(shapes) : shapes[k].defined)
  /\ <>[](pc = "done")

C8_Witness ==
  pc = "done" /\ Len(shapes) >= 2 /\ Len(edges) < Cardinality(BoundaryEdges)

StoredBehaviors == {behaviors[t][1] : t \in {u \in BehaviorTypes : behaviors[u] # << >>}}

\* C10: behaviorList holds at most one behavior of each type and exactly the
\* instances of the behaviors map; addTo and setup were called on exactly the
\* listed behaviors, once each; a behave call whose type is already present
\* changes none of them.
C10_OneBehaviorPerType ==
  /\ [](/\ \A p, q \in 1..Len(behaviorList) :
             p # q => behaviorList[p].type # behaviorList[q].type
        /\ {behaviorList[k] : k \in 1..Len(behaviorList)} = StoredBehaviors
        /\ addToCalls = behaviorList
        /\ setupCalls = behaviorList)
  /\ [][(/\ calls' = calls + 1
         /\ lastBehave'.behavior # << >>
         /\ behaviors[lastBehave'.behavior[1].type] # << >>)
        => UNCHANGED <<behaviorList, behaviors, addToCalls, setupCalls>>]_vars

C10_Witness == lastBehave.outcome = "rejected" /\ Len(behaviorList) >= 2

\* a scene constructed under any registry, then driven through its methods
SceneSpecInit ==
  /\ IdleLayer
  /\ ActorInit
  /\ CompInit
  /\ AudioInit
  /\ \E reg \in Registries : SceneInit(reg)

SceneNext ==
  \/ RegisterSystem
  \/ AddObject
  \/ UpdateBegin
  \/ SystemHook
  \/ EmitPhase
  \/ OwnPhase

SceneSpec == SceneSpecInit /\ [][SceneNext]_vars

\* the sequences that hold every member of S once
Orderings(S) ==
  {f \in [1..Cardinality(S) -> S] : \A a, b \in 1..Cardinality(S) : f[a] = f[b] => a = b}

\* scene.objects with its lists filled: every object in at most one list,
\* at most once
ObjectMaps ==
  UNION {{[t \in Tags |-> IF t = "0" THEN << l0 >>
                          ELSE IF place[t] THEN << l1 >> ELSE << >>] :
            l0 \in Orderings({o \in Objects : at[o] = "0"}),
            l1 \in Orderings({o \in Objects : at[o] = "1" /\ place["1"]})} :
         at \in [Objects -> Tags \cup {"none"}], place \in [{"1"} -> BOOLEAN]}

\* the Object system's update as a function of scene.objects, of the tags
\* that are paused and of what the objects' update methods do
PassSpecInit ==
  /\ IdleLayer
  /\ ActorInit
  /\ CompInit
  /\ AudioInit
  /\ systems = [n \in SystemNames |-> IF n = "Object" THEN ObjectSystem ELSE NoSystem]
  /\ lateSystems = {}
  /\ updateOrder = << "Object" >>
  /\ objects \in ObjectMaps
  /\ \E paused \in SUBSET {t \in Tags : objects[t] # << >>} :
       /\ activeTags = SelectSeq(KeyOrder, LAMBDA t : objects[t] # << >> /\ t \notin paused)
       /\ deactiveTags = SelectSeq(KeyOrder, LAMBDA t : t \in paused)
  /\ removeFlag = [o \in Objects |-> FALSE]
  /\ onUpdate \in [Objects -> Targets]
  /\ updated = << >>
  /\ phase = 0
  /\ step = "idle"
  /\ hookIdx = 0
  /\ trace = << >>
  /\ tagCalls = 0
  /\ lastCall = NoCall
  /\ sceneThrown = NoError

PassNext ==
  \/ RemoveObject
  \/ ObjectSystemUpdate

PassSpec == PassSpecInit /\ [][PassNext]_vars

\* a scene whose tags, all active, are paused and resumed
TagSpecInit ==
  /\ IdleLayer
  /\ ActorInit
  /\ CompInit
  /\ AudioInit
  /\ systems = [n \in SystemNames |-> IF n = "Object" THEN ObjectSystem ELSE NoSystem]
  /\ lateSystems = {}
  /\ updateOrder = << "Object" >>
  /\ \E listed \in {T \in SUBSET Tags : "0" \in T} :
       /\ objects = [t \in Tags |-> IF t \in listed THEN << << >> >> ELSE << >>]
       /\ activeTags = SelectSeq(KeyOrder, LAMBDA t : t \in listed)
  /\ deactiveTags = << >>
  /\ removeFlag = [o \in Objects |-> FALSE]
  /\ onUpdate = [o \in Objects |-> 0]
  /\ updated = << >>
  /\ phase = 0
  /\ step = "idle"
  /\ hookIdx = 0
  /\ trace = << >>
  /\ tagCalls = 0
  /\ lastCall = NoCall
  /\ sceneThrown = NoError

TagNext ==
  \/ PauseObjects
  \/ ResumeObjects

TagSpec == TagSpecInit /\ [][TagNext]_vars

\* the audio module: sounds are registered, the loader starts, sounds report
AudioSpecInit ==
  /\ IdleLayer
  /\ ActorInit
  /\ CompInit
  /\ SceneIdle
  /\ AudioInit

AudioNext ==
  \/ AddSound
  \/ StartLoader
  \/ Report
  \/ CompleteTimer

\* a sound asked to load reports in the end, and a timer set fires
AudioSpec ==
  AudioSpecInit /\ [][AudioNext]_vars /\ WF_vars(Report) /\ WF_vars(CompleteTimer)

PositiveFinite(v) == v.t = "number" /\ v.n2 > 0

\* C12: whatever the settings and the sprite, the Circle or Box initBody
\* constructs has a strictly positive finite radius, width and height.
C12_PositiveFiniteExtent ==
  (lastOp = "initBody") =>
    /\ body.shape.kind = "Circle" => PositiveFinite(body.shape.radius)
    /\ body.shape.kind = "Box" => /\ PositiveFinite(body.shape.width)
                                  /\ PositiveFinite(body.shape.height)

\* C14: whenever the sprite or the body exists, its position is the actor's
\* position and its rotation equals the actor's rotation.
C14_ComponentsShareTransform ==
  /\ sprite # Null => (sprite.position = "actor" /\ sprite.rotation = rotation)
  /\ body # Null => (body.position = "actor" /\ body.rotation = rotation)

\* C15: addBody is never issued for a body that is already in the world, and
\* once remove() has returned no body the actor created is in the world.
C15_BodiesRegisteredOnce ==
  /\ ~addBodyTwice
  /\ (lastOp = "remove") => world = {}

\* how often item occurs in arr
Occurrences(arr, item) == Cardinality({k \in 1..Len(arr) : arr[k] = item})

\* C13: addObject(object, tag) completes without error and leaves the object
\* exactly once in the list of its tag, that list existing and the tag
\* being active.
C13_AddObjectAdds ==
  (lastCall.name = "addObject") =>
    /\ sceneThrown = NoError
    /\ objects[lastCall.tag] # << >>
    /\ Occurrences(objects[lastCall.tag][1], lastCall.object) = 1
    /\ Occurrences(activeTags, lastCall.tag) + Occurrences(deactiveTags, lastCall.tag) = 1

\* the names registered when the scene was constructed, in Scene.updateOrder order
ConstructedOrder ==
  SelectSeq(<< "Object", "Timeline", "Physics", "Renderer" >>,
            LAMBDA name : systems[name].registered /\ name \notin lateSystems)

\* what one phase must invoke: the hooks, the event, the scene's own method
ExpectedPhase(p) ==
  [k \in 1..Len(SelectSeq(ConstructedOrder, LAMBDA name : p \in systems[name].hooks)) |->
     [kind |-> "hook",
      by |-> SelectSeq(ConstructedOrder, LAMBDA name : p \in systems[name].hooks)[k],
      phase |-> p]]
  \o << [kind |-> "emit", by |-> "scene", phase |-> p],
        [kind |-> "own", by |-> "scene", phase |-> p] >>

ExpectedTrace ==
  ExpectedPhase("preUpdate") \o ExpectedPhase("update") \o ExpectedPhase("postUpdate")

\* C16: in every _update the phases run in the order preUpdate, update,
\* postUpdate; within a phase the hooks of the systems registered when the
\* scene was constructed run in Scene.updateOrder order, then the scene emits
\* the phase's event, then the scene's own phase method runs.
C16_PhasesInOrder ==
  /\ updateOrder = ConstructedOrder
  /\ Len(trace) <= Len(ExpectedTrace)
  /\ trace = SubSeq(ExpectedTrace, 1, Len(trace))
  /\ (phase = 0 /\ trace # << >>) => trace = ExpectedTrace

\* an _update has returned in which two systems' update hooks ran, on a scene
\* that ignores a system with hooks registered after its construction
C16_Witness ==
  /\ phase = 0
  /\ trace = ExpectedTrace
  /\ Cardinality({k \in 1..Len(trace) :
                    trace[k].kind = "hook" /\ trace[k].phase = "update"}) >= 2
  /\ \E k \in 1..Len(trace) : trace[k].kind = "hook" /\ trace[k].phase = "preUpdate"
  /\ \E name \in lateSystems : systems[name].hooks # {}

\* the members of the list of tag t
ListOf(objs, t) == {objs[t][1][k] : k \in 1..Len(objs[t][1])}

\* C17: an Object-system update visits every object of an active tag once:
\* an object not flagged _remove is updated exactly once, a flagged object is
\* not updated and leaves its list, no flagged object remains in an active
\* list; the objects of paused tags are neither updated nor removed.
C17_PassVisitsEachOnce ==
  [][(lastCall'.name = "update") =>
       \A t \in {u \in Tags : objects[u] # << >>} :
         IF indexOf(activeTags, t) >= 0
         THEN \A o \in ListOf(objects, t) :
                /\ Occurrences(updated', o) <= 1
                /\ removeFlag[o] => Occurrences(updated', o) = 0
                /\ ~removeFlag'[o] => Occurrences(updated', o) = 1
                /\ (o \in ListOf(objects', t)) = ~removeFlag'[o]
         ELSE /\ objects'[t] = objects[t]
              /\ \A o \in ListOf(objects, t) : Occurrences(updated', o) = 0]_vars

\* every tag with a list is once in activeTags or deactiveTags, never in both
TagsPartitioned ==
  \A t \in {u \in Tags : objects[u] # << >>} :
    Occurrences(activeTags, t) + Occurrences(deactiveTags, t) = 1

\* C19: after any pauseObjects / resumeObjects calls every tag that has a
\* list is exactly once in activeTags or deactiveTags; pausing or resuming a
\* tag leaves the status of every other tag as it was.
C19_TagsPartitioned ==
  /\ []TagsPartitioned
  /\ [][\A t \in Tags \ {lastCall'.tag} :
          /\ Occurrences(activeTags', t) = Occurrences(activeTags, t)
          /\ Occurrences(deactiveTags', t) = Occurrences(deactiveTags, t)]_vars

\* what C18 asks of every state
OneCompletion ==
  /\ completeCalls <= 1
  /\ (started /\ startedWith = {}) => completeCalls = 1
  /\ (completeCalls = 1 /\ startedWith # {}) => startedWith \cap loading = {}
  /\ progressCalls = reports
  /\ ~lateCallback

====
